---- MODULE Spec2Model ----
(***************************************************************************)
(* Model of SpotifyClient (src/api/client.ts): the per-call retry / token  *)
(* refresh state machine of SpotifyClient.fetch, with setAuthProvider     *)
(* running at any moment of a logical call.  Spec issues the calls of      *)
(* Single; InitWith and NextWith build specifications with more calls.     *)
(*                                                                         *)
(* One action is one run-to-next-await segment of the async code; the      *)
(* transport, the timers and the auth provider are the environment.        *)
(***************************************************************************)
EXTENDS Integers, Sequences, FiniteSets, TLC

\* ---------------------------------------------------------------- bounds
MaxRetries == 1          \* largest configured opts.retryTimesOn5xx explored
MaxAttempts == 4         \* the physical-attempt counter saturates here

Calls == {"c1", "c2"}
Single == {"c1"}                \* the calls issued when calls do not overlap
Providers == {"p1"}
Tokens == {"t1", "t2"}          \* bearer tokens, opaque strings
StaticTokens == {"t1"}          \* tokens passed as a plain string
NoToken == "none"
Statuses == {200, 304, 401, 404, 429, 503}
Bodies == {"none", "envelope", "raw"}
\* body texts: the error envelope, JSON without an error member, JSON whose
\* error member has no message (as {"error": "invalid_client"}), not JSON
AllBodies == {"none", "envelope", "json", "errorOnly", "raw"}
RetryAfterHeaders == {"absent", "0", "2", "date"}
HeaderNames == {"Content-Type", "Accept", "X-Custom"}
NoHeader == "absent"
HeaderValues == {"text/plain"}
\* the headers argument of fetch: a value for some of the names
HeaderArgs == [HeaderNames -> HeaderValues \cup {NoHeader}]
\* no headers argument
NoHeaders == [n \in HeaderNames |-> NoHeader]
ResponseTypes == {"json", "void"}
RetryDelays == {0, 100}

\* IAuthProvider | string: a string is its own token, an object is a provider
AuthProviders ==
    [type : {"string"}, token : StaticTokens] \cup [type : {"object"}, id : Providers]

NoRes == [status |-> 0, body |-> "none", stream |-> "none", retryAfter |-> "absent"]
NoOutcome == [kind |-> "none", status |-> 0, message |-> "none"]
NoProvider == [type |-> "none"]

VARIABLES
    authProvider,        \* this.authProvider
    opts,                \* this.opts (readonly)
    curToken,            \* what each provider's getToken() returns now
    pc,                  \* where each logical call is suspended
    responseType,        \* the call's responseType argument
    accessToken,         \* the closure variable accessToken
    sentToken,           \* the bearer token in _headers' Authorization
    isTriedRefreshToken, \* the closure variable isTriedRefreshToken
    retryTimesOn5xx,     \* the closure variable retryTimesOn5xx
    res,                 \* the response the call is handling
    refreshOn,           \* the provider whose refreshToken() is pending
    outcome,             \* what the call returned or threw
    attempts,            \* history: physical attempts sent (saturating)
    refreshCalls,        \* history: refreshToken() invocations
    refreshResult,       \* history: token the call's refreshToken() returned
    startProvider,       \* history: this.authProvider when the call started
    unreleased,          \* history: a response was dropped with its body open
    only5xx,             \* history: every response so far was a 5xx
    first401,            \* history: the first response was a 401
    headers,             \* the call's headers argument (FetchOpts.headers)
    reqHeaders           \* the closure constant _headers, Authorization aside

vars == <<authProvider, opts, curToken, pc, responseType, accessToken,
          sentToken, isTriedRefreshToken, retryTimesOn5xx, res, refreshOn,
          outcome, attempts, refreshCalls, refreshResult, startProvider,
          unreleased, only5xx, first401, headers, reqHeaders>>

callVars == <<pc, responseType, accessToken, sentToken, isTriedRefreshToken,
              retryTimesOn5xx, res, refreshOn, outcome, attempts,
              refreshCalls, refreshResult, startProvider, unreleased,
              only5xx, first401, headers, reqHeaders>>

\* ------------------------------------------------------- pure functions
\* a Headers object: the values appended under each name, which are sent
\* joined by ", " in the order they were appended
EmptyHeaders == [n \in HeaderNames |-> <<>>]

\* new Headers(this.BASE_HEADERS)
BASE_HEADERS ==
    [n \in HeaderNames |->
        IF n \in {"Content-Type", "Accept"} THEN <<"application/json">> ELSE <<>>]

\* Headers.append(name, value)
HeadersAppend(hs, n, v) == [hs EXCEPT ![n] = Append(@, v)]

\* Object.entries(headers).forEach(([name, value]) => _headers.append(name, value))
\* on new Headers(BASE_HEADERS); each name occurs once in the argument, so
\* the order of the entries does not matter
RECURSIVE AppendAll(_, _, _)
AppendAll(hs, h, names) ==
    IF names = {} THEN hs
    ELSE LET n == CHOOSE x \in names : TRUE
         IN  AppendAll(IF h[n] = NoHeader THEN hs ELSE HeadersAppend(hs, n, h[n]),
                       h, names \ {n})

MergeHeaders(h) == AppendAll(BASE_HEADERS, h, HeaderNames)

\* typeof this.authProvider === "object"
IsObject(ap) == ap.type = "object"

\* the token resolved at the start of fetch: getToken() or the string itself
ResolveToken(ap, cur) == IF IsObject(ap) THEN cur[ap.id] ELSE ap.token

\* Response.ok
Ok(status) == status >= 200 /\ status <= 299

RECURSIVE LeadingDigit(_)
LeadingDigit(n) == IF n < 10 THEN n ELSE LeadingDigit(n \div 10)

\* res.status.toString().startsWith("5")
StartsWith5(status) == LeadingDigit(status) = 5

\* Number(res.headers.get("Retry-After")): Number(null) is 0, a date is NaN
NumberOfHeader(h) ==
    CASE h = "absent" -> [nan |-> FALSE, val |-> 0]
      [] h = "0"      -> [nan |-> FALSE, val |-> 0]
      [] h = "2"      -> [nan |-> FALSE, val |-> 2]
      [] OTHER        -> [nan |-> TRUE, val |-> 0]

\* JavaScript truthiness of a number
Truthy(n) == ~n.nan /\ n.val # 0

Inc(n) == IF n < MaxAttempts THEN n + 1 ELSE MaxAttempts

\* the provider's state once its refreshToken() has produced token t
ProviderAfterRefresh(cur, p, t) == [cur EXCEPT ![p] = t]

\* ---------------------------------------------------------------- Init
ClientOpts ==
    [retryTimesOn5xx : 0..MaxRetries,
     retryDelayOn5xx : RetryDelays,
     retryOnRateLimit : BOOLEAN]

\* a client after construction; the caller will issue the calls in active
InitWith(active, optsSet) ==
    /\ authProvider \in AuthProviders
    /\ opts \in optsSet
    /\ curToken \in [Providers -> Tokens]
    /\ pc = [c \in Calls |-> IF c \in active THEN "idle" ELSE "unused"]
    /\ responseType = [c \in Calls |-> "json"]
    /\ accessToken = [c \in Calls |-> NoToken]
    /\ sentToken = [c \in Calls |-> NoToken]
    /\ isTriedRefreshToken = [c \in Calls |-> FALSE]
    /\ retryTimesOn5xx = [c \in Calls |-> 0]
    /\ res = [c \in Calls |-> NoRes]
    /\ refreshOn = [c \in Calls |-> NoProvider]
    /\ outcome = [c \in Calls |-> NoOutcome]
    /\ attempts = [c \in Calls |-> 0]
    /\ refreshCalls = [c \in Calls |-> 0]
    /\ refreshResult = [c \in Calls |-> NoToken]
    /\ startProvider = [c \in Calls |-> NoProvider]
    /\ unreleased = [c \in Calls |-> FALSE]
    /\ only5xx = [c \in Calls |-> TRUE]
    /\ first401 = [c \in Calls |-> FALSE]
    /\ headers = [c \in Calls |-> NoHeaders]
    /\ reqHeaders = [c \in Calls |-> EmptyHeaders]

\* --------------------------------------------------------------- actions
\* setAuthProvider(authProvider)
SetAuthProvider(ap) ==
    /\ authProvider' = ap
    /\ UNCHANGED <<opts, curToken>>
    /\ UNCHANGED callVars

\* fetch(...) up to the first await: resolve the token, first call()
StartCall(c, rt, h) ==
    /\ pc[c] = "idle"
    /\ responseType' = [responseType EXCEPT ![c] = rt]
    /\ headers' = [headers EXCEPT ![c] = h]
    /\ reqHeaders' = [reqHeaders EXCEPT ![c] = MergeHeaders(h)]
    /\ isTriedRefreshToken' = [isTriedRefreshToken EXCEPT ![c] = FALSE]
    /\ retryTimesOn5xx' = [retryTimesOn5xx EXCEPT ![c] = opts.retryTimesOn5xx]
    /\ accessToken' = [accessToken EXCEPT ![c] = ResolveToken(authProvider, curToken)]
    /\ sentToken' = [sentToken EXCEPT ![c] = accessToken'[c]]
    /\ attempts' = [attempts EXCEPT ![c] = Inc(@)]
    /\ startProvider' = [startProvider EXCEPT ![c] = authProvider]
    /\ pc' = [pc EXCEPT ![c] = "awaitFetch"]
    /\ UNCHANGED <<authProvider, opts, curToken, res, refreshOn, outcome,
                   refreshCalls, refreshResult, unreleased, only5xx, first401>>

\* the transport answers the pending request with a response
Respond(c, status, body, ra) ==
    /\ pc[c] = "awaitFetch"
    /\ status # 429 => ra = "absent"
    /\ res' = [res EXCEPT ![c] =
                 [status |-> status, body |-> body,
                  stream |-> IF body = "none" THEN "none" ELSE "open",
                  retryAfter |-> ra]]
    /\ only5xx' = [only5xx EXCEPT ![c] = @ /\ StartsWith5(status)]
    /\ first401' = [first401 EXCEPT ![c] =
                      IF attempts[c] = 1 THEN status = 401 ELSE @]
    /\ pc' = [pc EXCEPT ![c] = "gotResponse"]
    /\ UNCHANGED <<authProvider, opts, headers, reqHeaders, curToken, responseType, accessToken,
                   sentToken, isTriedRefreshToken, retryTimesOn5xx, refreshOn,
                   outcome, attempts, refreshCalls, refreshResult,
                   startProvider, unreleased>>

\* variant: a rejected send is retried while 5xx budget is left
FetchReject_Retry(c) ==
    /\ pc[c] = "awaitFetch"
    /\ IF retryTimesOn5xx[c] > 0
         THEN /\ retryTimesOn5xx' = [retryTimesOn5xx EXCEPT ![c] = @ - 1]
              /\ attempts' = [attempts EXCEPT ![c] = Inc(@)]
              /\ UNCHANGED <<pc, outcome>>
         ELSE /\ pc' = [pc EXCEPT ![c] = "failed"]
              /\ outcome' = [outcome EXCEPT ![c] =
                               [kind |-> "TransportError", status |-> 0,
                                message |-> "none"]]
              /\ UNCHANGED <<retryTimesOn5xx, attempts>>
    /\ UNCHANGED <<authProvider, opts, headers, reqHeaders, curToken, responseType, accessToken,
                   sentToken, isTriedRefreshToken, res, refreshOn,
                   refreshCalls, refreshResult, startProvider, unreleased,
                   only5xx, first401>>

\* the transport fails: await fetch(...) rejects and fetch() rejects with it
FetchReject(c) ==
    /\ pc[c] = "awaitFetch"
    /\ pc' = [pc EXCEPT ![c] = "failed"]
    /\ outcome' = [outcome EXCEPT ![c] =
                     [kind |-> "TransportError", status |-> 0, message |-> "none"]]
    /\ UNCHANGED <<authProvider, opts, headers, reqHeaders, curToken, responseType, accessToken,
                   sentToken, isTriedRefreshToken, retryTimesOn5xx, res,
                   refreshOn, attempts, refreshCalls, refreshResult,
                   startProvider, unreleased, only5xx, first401>>

\* variant: the token is resolved from the Token Source at every attempt
Call_ReResolve(c) ==
    /\ sentToken' = [sentToken EXCEPT ![c] = ResolveToken(authProvider, curToken)]
    /\ attempts' = [attempts EXCEPT ![c] = Inc(@)]
    /\ unreleased' = [unreleased EXCEPT ![c] =
                        @ \/ res[c].stream = "open"]
    /\ res' = [res EXCEPT ![c] = NoRes]
    /\ pc' = [pc EXCEPT ![c] = "awaitFetch"]

\* return call(): the next physical attempt; the handled response is dropped
Call(c) ==
    /\ sentToken' = [sentToken EXCEPT ![c] = accessToken'[c]]
    /\ attempts' = [attempts EXCEPT ![c] = Inc(@)]
    /\ unreleased' = [unreleased EXCEPT ![c] =
                        @ \/ res[c].stream = "open"]
    /\ res' = [res EXCEPT ![c] = NoRes]
    /\ pc' = [pc EXCEPT ![c] = "awaitFetch"]

\* variant: the refresh flag is not tested
RefreshBranch_NoFlagCheck(c) ==
    /\ res[c].status = 401
    /\ IsObject(authProvider)

\* variant: the decision uses the provider the call started with
RefreshBranch_StartProvider(c) ==
    /\ res[c].status = 401
    /\ IsObject(startProvider[c])
    /\ ~isTriedRefreshToken[c]

\* variant: the type of authProvider is not tested
RefreshBranch_NoTypeCheck(c) ==
    /\ res[c].status = 401
    /\ ~isTriedRefreshToken[c]

\* variant: no refresh while the refresh of another call is pending
RefreshBranch_Serialized(c) ==
    /\ res[c].status = 401
    /\ IsObject(authProvider)
    /\ ~isTriedRefreshToken[c]
    /\ \A d \in Calls \ {c} : pc[d] # "awaitRefresh"

\* the conditions of the three retry branches, in the order the code tests them
RefreshBranch(c) ==
    /\ res[c].status = 401
    /\ IsObject(authProvider)
    /\ ~isTriedRefreshToken[c]

\* variant: retryOnRateLimit is not tested
RateLimitBranch_IgnoreFlag(c) ==
    /\ res[c].status = 429
    /\ Truthy(NumberOfHeader(res[c].retryAfter))

RateLimitBranch(c) ==
    /\ res[c].status = 429
    /\ opts.retryOnRateLimit
    /\ Truthy(NumberOfHeader(res[c].retryAfter))

\* variant: one retry too many
ServerErrorBranch_OffByOne(c) ==
    /\ StartsWith5(res[c].status)
    /\ retryTimesOn5xx[c] >= 0

ServerErrorBranch(c) ==
    /\ StartsWith5(res[c].status)
    /\ retryTimesOn5xx[c] # 0

\* variant: a "void" call returns without cancelling the body
HandleOk_NoCancel(c) ==
    /\ pc[c] = "gotResponse"
    /\ Ok(res[c].status)
    /\ IF responseType[c] = "json"
         THEN IF res[c].body = "none"
                THEN /\ pc' = [pc EXCEPT ![c] = "failed"]
                     /\ outcome' = [outcome EXCEPT ![c] =
                                      [kind |-> "Error", status |-> 0,
                                       message |-> "Body not found"]]
                ELSE /\ pc' = [pc EXCEPT ![c] = "awaitJson"]
                     /\ UNCHANGED outcome
         ELSE IF FALSE
                THEN /\ pc' = [pc EXCEPT ![c] = "awaitCancel"]
                     /\ UNCHANGED outcome
                ELSE /\ pc' = [pc EXCEPT ![c] = "returned"]
                     /\ outcome' = [outcome EXCEPT ![c] =
                                      [kind |-> "void", status |-> res[c].status,
                                       message |-> "none"]]
    /\ UNCHANGED <<authProvider, opts, headers, reqHeaders, curToken, responseType, accessToken,
                   sentToken, isTriedRefreshToken, retryTimesOn5xx, res,
                   refreshOn, attempts, refreshCalls, refreshResult,
                   startProvider, unreleased, only5xx, first401>>

\* if (res.ok) return res; then the result handling after await call()
HandleOk(c) ==
    /\ pc[c] = "gotResponse"
    /\ Ok(res[c].status)
    /\ IF responseType[c] = "json"
         THEN IF res[c].body = "none"
                THEN /\ pc' = [pc EXCEPT ![c] = "failed"]
                     /\ outcome' = [outcome EXCEPT ![c] =
                                      [kind |-> "Error", status |-> 0,
                                       message |-> "Body not found"]]
                ELSE /\ pc' = [pc EXCEPT ![c] = "awaitJson"]
                     /\ UNCHANGED outcome
         ELSE IF res[c].body # "none"
                THEN /\ pc' = [pc EXCEPT ![c] = "awaitCancel"]
                     /\ UNCHANGED outcome
                ELSE /\ pc' = [pc EXCEPT ![c] = "returned"]
                     /\ outcome' = [outcome EXCEPT ![c] =
                                      [kind |-> "void", status |-> res[c].status,
                                       message |-> "none"]]
    /\ UNCHANGED <<authProvider, opts, headers, reqHeaders, curToken, responseType, accessToken,
                   sentToken, isTriedRefreshToken, retryTimesOn5xx, res,
                   refreshOn, attempts, refreshCalls, refreshResult,
                   startProvider, unreleased, only5xx, first401>>

\* 401 with a provider object and no refresh yet: invoke refreshToken()
HandleUnauthorized(c) ==
    /\ pc[c] = "gotResponse"
    /\ ~Ok(res[c].status)
    /\ RefreshBranch(c)
    /\ refreshOn' = [refreshOn EXCEPT ![c] = authProvider]
    /\ refreshCalls' = [refreshCalls EXCEPT ![c] = Inc(@)]
    /\ pc' = [pc EXCEPT ![c] = "awaitRefresh"]
    /\ UNCHANGED <<authProvider, opts, headers, reqHeaders, curToken, responseType, accessToken,
                   sentToken, isTriedRefreshToken, retryTimesOn5xx, res,
                   outcome, attempts, refreshResult, startProvider,
                   unreleased, only5xx, first401>>

\* variant: the refresh is not marked as attempted
RefreshResolve_NoMark(c, t) ==
    /\ pc[c] = "awaitRefresh"
    /\ curToken' = ProviderAfterRefresh(curToken, refreshOn[c].id, t)
    /\ accessToken' = [accessToken EXCEPT ![c] = t]
    /\ UNCHANGED isTriedRefreshToken
    /\ refreshResult' = [refreshResult EXCEPT ![c] = t]
    /\ refreshOn' = [refreshOn EXCEPT ![c] = NoProvider]
    /\ Call(c)
    /\ UNCHANGED <<authProvider, opts, headers, reqHeaders, responseType, retryTimesOn5xx, outcome,
                   refreshCalls, startProvider, only5xx, first401>>

\* variant: the refreshed token is not stored in accessToken
RefreshResolve_KeepToken(c, t) ==
    /\ pc[c] = "awaitRefresh"
    /\ curToken' = ProviderAfterRefresh(curToken, refreshOn[c].id, t)
    /\ UNCHANGED accessToken
    /\ isTriedRefreshToken' = [isTriedRefreshToken EXCEPT ![c] = TRUE]
    /\ refreshResult' = [refreshResult EXCEPT ![c] = t]
    /\ refreshOn' = [refreshOn EXCEPT ![c] = NoProvider]
    /\ Call(c)
    /\ UNCHANGED <<authProvider, opts, headers, reqHeaders, responseType, retryTimesOn5xx, outcome,
                   refreshCalls, startProvider, only5xx, first401>>

\* variant: a refresh resets the 5xx budget
RefreshResolve_ResetBudget(c, t) ==
    /\ pc[c] = "awaitRefresh"
    /\ curToken' = ProviderAfterRefresh(curToken, refreshOn[c].id, t)
    /\ accessToken' = [accessToken EXCEPT ![c] = t]
    /\ isTriedRefreshToken' = [isTriedRefreshToken EXCEPT ![c] = TRUE]
    /\ refreshResult' = [refreshResult EXCEPT ![c] = t]
    /\ refreshOn' = [refreshOn EXCEPT ![c] = NoProvider]
    /\ Call(c)
    /\ retryTimesOn5xx' = [retryTimesOn5xx EXCEPT ![c] = opts.retryTimesOn5xx]
    /\ UNCHANGED <<authProvider, opts, headers, reqHeaders, responseType, outcome,
                   refreshCalls, startProvider, only5xx, first401>>

\* refreshToken() resolves with t: store it, mark the refresh, call() again
RefreshResolve(c, t) ==
    /\ pc[c] = "awaitRefresh"
    /\ curToken' = ProviderAfterRefresh(curToken, refreshOn[c].id, t)
    /\ accessToken' = [accessToken EXCEPT ![c] = t]
    /\ isTriedRefreshToken' = [isTriedRefreshToken EXCEPT ![c] = TRUE]
    /\ refreshResult' = [refreshResult EXCEPT ![c] = t]
    /\ refreshOn' = [refreshOn EXCEPT ![c] = NoProvider]
    /\ Call(c)
    /\ UNCHANGED <<authProvider, opts, headers, reqHeaders, responseType, retryTimesOn5xx, outcome,
                   refreshCalls, startProvider, only5xx, first401>>

\* refreshToken() rejects: the rejection leaves fetch() as it is
RefreshReject(c) ==
    /\ pc[c] = "awaitRefresh"
    /\ pc' = [pc EXCEPT ![c] = "failed"]
    /\ refreshOn' = [refreshOn EXCEPT ![c] = NoProvider]
    /\ outcome' = [outcome EXCEPT ![c] =
                     [kind |-> "RefreshError", status |-> 0, message |-> "none"]]
    /\ UNCHANGED <<authProvider, opts, headers, reqHeaders, curToken, responseType, accessToken,
                   sentToken, isTriedRefreshToken, retryTimesOn5xx, res,
                   attempts, refreshCalls, refreshResult, startProvider,
                   unreleased, only5xx, first401>>

\* 429 with retryOnRateLimit and a truthy Retry-After: start the timer
HandleRateLimit(c) ==
    /\ pc[c] = "gotResponse"
    /\ ~Ok(res[c].status)
    /\ ~RefreshBranch(c)
    /\ RateLimitBranch(c)
    /\ pc' = [pc EXCEPT ![c] = "sleep429"]
    /\ UNCHANGED <<authProvider, opts, headers, reqHeaders, curToken, responseType, accessToken,
                   sentToken, isTriedRefreshToken, retryTimesOn5xx, res,
                   refreshOn, outcome, attempts, refreshCalls, refreshResult,
                   startProvider, unreleased, only5xx, first401>>

\* variant: a rate-limit retry consumes the 5xx budget
RateLimitTimer_ConsumesBudget(c) ==
    /\ pc[c] = "sleep429"
    /\ UNCHANGED accessToken
    /\ retryTimesOn5xx' = [retryTimesOn5xx EXCEPT ![c] = IF @ > 0 THEN @ - 1 ELSE 0]
    /\ Call(c)
    /\ UNCHANGED <<authProvider, opts, headers, reqHeaders, curToken, responseType,
                   isTriedRefreshToken, refreshOn, outcome,
                   refreshCalls, refreshResult, startProvider, only5xx,
                   first401>>

\* the Retry-After timer fires: call() again
RateLimitTimer(c) ==
    /\ pc[c] = "sleep429"
    /\ UNCHANGED accessToken
    /\ Call(c)
    /\ UNCHANGED <<authProvider, opts, headers, reqHeaders, curToken, responseType,
                   isTriedRefreshToken, retryTimesOn5xx, refreshOn, outcome,
                   refreshCalls, refreshResult, startProvider, only5xx,
                   first401>>

\* variant: an immediate retry does not consume the budget
HandleServerError_NoDecrement(c) ==
    /\ pc[c] = "gotResponse"
    /\ ~Ok(res[c].status)
    /\ ~RefreshBranch(c)
    /\ ~RateLimitBranch(c)
    /\ ServerErrorBranch(c)
    /\ IF opts.retryDelayOn5xx # 0
         THEN /\ pc' = [pc EXCEPT ![c] = "sleep5xx"]
              /\ UNCHANGED <<accessToken, sentToken, retryTimesOn5xx, res,
                             attempts, unreleased>>
         ELSE /\ UNCHANGED <<accessToken, retryTimesOn5xx>>
              /\ Call(c)
    /\ UNCHANGED <<authProvider, opts, headers, reqHeaders, curToken, responseType,
                   isTriedRefreshToken, refreshOn, outcome, refreshCalls,
                   refreshResult, startProvider, only5xx, first401>>

\* 5xx with retries left: wait retryDelayOn5xx if set, else retry at once
HandleServerError(c) ==
    /\ pc[c] = "gotResponse"
    /\ ~Ok(res[c].status)
    /\ ~RefreshBranch(c)
    /\ ~RateLimitBranch(c)
    /\ ServerErrorBranch(c)
    /\ IF opts.retryDelayOn5xx # 0
         THEN /\ pc' = [pc EXCEPT ![c] = "sleep5xx"]
              /\ UNCHANGED <<accessToken, sentToken, retryTimesOn5xx, res,
                             attempts, unreleased>>
         ELSE /\ retryTimesOn5xx' = [retryTimesOn5xx EXCEPT ![c] = @ - 1]
              /\ UNCHANGED accessToken
              /\ Call(c)
    /\ UNCHANGED <<authProvider, opts, headers, reqHeaders, curToken, responseType,
                   isTriedRefreshToken, refreshOn, outcome, refreshCalls,
                   refreshResult, startProvider, only5xx, first401>>

\* variant: a delayed retry does not consume the budget
RetryDelayTimer_NoDecrement(c) ==
    /\ pc[c] = "sleep5xx"
    /\ UNCHANGED retryTimesOn5xx
    /\ UNCHANGED accessToken
    /\ Call(c)
    /\ UNCHANGED <<authProvider, opts, headers, reqHeaders, curToken, responseType,
                   isTriedRefreshToken, refreshOn, outcome, refreshCalls,
                   refreshResult, startProvider, only5xx, first401>>

\* the retry delay timer fires: retryTimesOn5xx--, call() again
RetryDelayTimer(c) ==
    /\ pc[c] = "sleep5xx"
    /\ retryTimesOn5xx' = [retryTimesOn5xx EXCEPT ![c] = @ - 1]
    /\ UNCHANGED accessToken
    /\ Call(c)
    /\ UNCHANGED <<authProvider, opts, headers, reqHeaders, curToken, responseType,
                   isTriedRefreshToken, refreshOn, outcome, refreshCalls,
                   refreshResult, startProvider, only5xx, first401>>

\* variant: after a refresh the error carries the status of the retried 401
HandleError_StaleStatus(c) ==
    /\ pc[c] = "gotResponse"
    /\ ~Ok(res[c].status)
    /\ ~RefreshBranch(c)
    /\ ~RateLimitBranch(c)
    /\ ~ServerErrorBranch(c)
    /\ IF res[c].body = "none"
         THEN /\ pc' = [pc EXCEPT ![c] = "failed"]
              /\ outcome' = [outcome EXCEPT ![c] =
                               [kind |-> "SpotifyError",
                                status |-> IF isTriedRefreshToken[c] THEN 401 ELSE res[c].status,
                                message |-> "null"]]
         ELSE /\ pc' = [pc EXCEPT ![c] = "awaitText"]
              /\ UNCHANGED outcome
    /\ UNCHANGED <<authProvider, opts, headers, reqHeaders, curToken, responseType, accessToken,
                   sentToken, isTriedRefreshToken, retryTimesOn5xx, res,
                   refreshOn, attempts, refreshCalls, refreshResult,
                   startProvider, unreleased, only5xx, first401>>

\* no retry branch applies: build the message and throw SpotifyError
HandleError(c) ==
    /\ pc[c] = "gotResponse"
    /\ ~Ok(res[c].status)
    /\ ~RefreshBranch(c)
    /\ ~RateLimitBranch(c)
    /\ ~ServerErrorBranch(c)
    /\ IF res[c].body = "none"
         THEN /\ pc' = [pc EXCEPT ![c] = "failed"]
              /\ outcome' = [outcome EXCEPT ![c] =
                               [kind |-> "SpotifyError", status |-> res[c].status,
                                message |-> "null"]]
         ELSE /\ pc' = [pc EXCEPT ![c] = "awaitText"]
              /\ UNCHANGED outcome
    /\ UNCHANGED <<authProvider, opts, headers, reqHeaders, curToken, responseType, accessToken,
                   sentToken, isTriedRefreshToken, retryTimesOn5xx, res,
                   refreshOn, attempts, refreshCalls, refreshResult,
                   startProvider, unreleased, only5xx, first401>>

\* JSON.parse(text) returns
JsonParses(body) == body \in {"envelope", "json", "errorOnly"}

\* JSON.parse(text).error
ErrorMember(body) ==
    CASE body = "envelope"  -> "object with message"
      [] body = "errorOnly" -> "value without message"
      [] OTHER              -> "undefined"

\* JSON.parse(text).error.message, or the text when that throws: a
\* SyntaxError of JSON.parse, or a TypeError reading .message of undefined
ErrorMessage(body) ==
    IF ~JsonParses(body) THEN "text"
    ELSE IF ErrorMember(body) = "undefined" THEN "text"
    ELSE IF ErrorMember(body) = "object with message" THEN "error.message"
    ELSE "undefined"

\* res.text() resolves: throw SpotifyError(message, res.status)
TextRead(c) ==
    /\ pc[c] = "awaitText"
    /\ res' = [res EXCEPT ![c].stream = "consumed"]
    /\ pc' = [pc EXCEPT ![c] = "failed"]
    /\ outcome' = [outcome EXCEPT ![c] =
                     [kind |-> "SpotifyError", status |-> res[c].status,
                      message |-> ErrorMessage(res[c].body)]]
    /\ UNCHANGED <<authProvider, opts, headers, reqHeaders, curToken, responseType, accessToken,
                   sentToken, isTriedRefreshToken, retryTimesOn5xx, refreshOn,
                   attempts, refreshCalls, refreshResult, startProvider,
                   unreleased, only5xx, first401>>

\* res.json() settles: the parsed body, or a SyntaxError for a non-JSON body
JsonRead(c) ==
    /\ pc[c] = "awaitJson"
    /\ res' = [res EXCEPT ![c].stream = "consumed"]
    /\ IF ~JsonParses(res[c].body)
         THEN /\ pc' = [pc EXCEPT ![c] = "failed"]
              /\ outcome' = [outcome EXCEPT ![c] =
                               [kind |-> "SyntaxError", status |-> 0,
                                message |-> "none"]]
         ELSE /\ pc' = [pc EXCEPT ![c] = "returned"]
              /\ outcome' = [outcome EXCEPT ![c] =
                               [kind |-> "value", status |-> res[c].status,
                                message |-> "none"]]
    /\ UNCHANGED <<authProvider, opts, headers, reqHeaders, curToken, responseType, accessToken,
                   sentToken, isTriedRefreshToken, retryTimesOn5xx, refreshOn,
                   attempts, refreshCalls, refreshResult, startProvider,
                   unreleased, only5xx, first401>>

\* res.body.cancel() resolves: fetch() returns undefined
BodyCancel(c) ==
    /\ pc[c] = "awaitCancel"
    /\ res' = [res EXCEPT ![c].stream = "cancelled"]
    /\ pc' = [pc EXCEPT ![c] = "returned"]
    /\ outcome' = [outcome EXCEPT ![c] =
                     [kind |-> "void", status |-> res[c].status,
                      message |-> "none"]]
    /\ UNCHANGED <<authProvider, opts, headers, reqHeaders, curToken, responseType, accessToken,
                   sentToken, isTriedRefreshToken, retryTimesOn5xx, refreshOn,
                   attempts, refreshCalls, refreshResult, startProvider,
                   unreleased, only5xx, first401>>

\* ------------------------------------------------------- specifications
NextWith(statuses, bodies, retryAfters, headerArgs) ==
    \/ \E ap \in AuthProviders : SetAuthProvider(ap)
    \/ \E c \in Calls, rt \in ResponseTypes, h \in headerArgs :
          StartCall(c, rt, h)
    \/ \E c \in Calls, st \in statuses, b \in bodies, ra \in retryAfters :
          Respond(c, st, b, ra)
    \/ \E c \in Calls : FetchReject(c)
    \/ \E c \in Calls : HandleOk(c)
    \/ \E c \in Calls : HandleUnauthorized(c)
    \/ \E c \in Calls, t \in Tokens : RefreshResolve(c, t)
    \/ \E c \in Calls : RefreshReject(c)
    \/ \E c \in Calls : HandleRateLimit(c)
    \/ \E c \in Calls : RateLimitTimer(c)
    \/ \E c \in Calls : HandleServerError(c)
    \/ \E c \in Calls : RetryDelayTimer(c)
    \/ \E c \in Calls : HandleError(c)
    \/ \E c \in Calls : TextRead(c)
    \/ \E c \in Calls : JsonRead(c)
    \/ \E c \in Calls : BodyCancel(c)

\* every client configuration; the caller issues one logical call, and
\* setAuthProvider may run at any moment of it
Init == InitWith(Single, ClientOpts)

Next == NextWith(Statuses, Bodies, RetryAfterHeaders, {NoHeaders})

Spec == Init /\ [][Next]_vars

\* what one call does once begun: the transport answers, timers fire,
\* refreshToken() settles, body reads settle, and the code runs on
CallStep(c) ==
    \/ \E st \in Statuses, b \in Bodies, ra \in RetryAfterHeaders :
          Respond(c, st, b, ra)
    \/ FetchReject(c)
    \/ HandleOk(c)
    \/ HandleUnauthorized(c)
    \/ \E t \in Tokens : RefreshResolve(c, t)
    \/ RefreshReject(c)
    \/ HandleRateLimit(c)
    \/ RateLimitTimer(c)
    \/ HandleServerError(c)
    \/ RetryDelayTimer(c)
    \/ HandleError(c)
    \/ TextRead(c)
    \/ JsonRead(c)
    \/ BodyCancel(c)

FairSpec == Init /\ [][Next]_vars /\ \A c \in Single : WF_vars(CallStep(c))

\* error bodies of every kind, under the configuration with every retry on
MsgOpts ==
    {o \in ClientOpts : /\ o.retryTimesOn5xx = MaxRetries
                         /\ o.retryDelayOn5xx # 0
                         /\ o.retryOnRateLimit}

MsgInit == InitWith(Single, MsgOpts)

MsgNext == NextWith(Statuses, AllBodies, RetryAfterHeaders, {NoHeaders})

MsgSpec == MsgInit /\ [][MsgNext]_vars

\* calls with every headers argument, under the configuration with every
\* retry on
HeaderNext ==
    NextWith(Statuses, {"none", "envelope"}, {"absent", "2"}, HeaderArgs)

HeaderSpec == MsgInit /\ [][HeaderNext]_vars

\* two logical calls in flight at once on one client, answered with 200 or
\* 401: the steps the code can take on such responses
ConcStatuses == {200, 401}

ConcBodies == {"none", "envelope"}

ConcInit == InitWith(Calls, MsgOpts)

ConcNext ==
    \/ \E ap \in AuthProviders : SetAuthProvider(ap)
    \/ \E c \in Calls, rt \in ResponseTypes : StartCall(c, rt, NoHeaders)
    \/ \E c \in Calls, st \in ConcStatuses, b \in ConcBodies :
          Respond(c, st, b, "absent")
    \/ \E c \in Calls : FetchReject(c)
    \/ \E c \in Calls : HandleOk(c)
    \/ \E c \in Calls : HandleUnauthorized(c)
    \/ \E c \in Calls, t \in Tokens : RefreshResolve(c, t)
    \/ \E c \in Calls : RefreshReject(c)
    \/ \E c \in Calls : HandleError(c)
    \/ \E c \in Calls : TextRead(c)
    \/ \E c \in Calls : JsonRead(c)
    \/ \E c \in Calls : BodyCancel(c)

ConcSpec == ConcInit /\ [][ConcNext]_vars

\* ----------------------------------------------------------- properties
Begun(c) == pc[c] \notin {"idle", "unused"}
Ended(c) == pc[c] \in {"returned", "failed"}

\* the step sends a physical attempt of call c
Sends(c) == pc'[c] = "awaitFetch" /\ pc[c] # "awaitFetch"

\* the step leaves c with no further attempt and no refresh, and if it ends
\* the call, it ends it with a SpotifyError of this status
Terminal(c, status) ==
    /\ pc'[c] \in {pc[c], "awaitText", "failed"}
    /\ refreshCalls'[c] = refreshCalls[c]
    /\ attempts'[c] = attempts[c]
    /\ pc'[c] = "failed" /\ pc[c] # "failed" =>
          outcome'[c].kind = "SpotifyError" /\ outcome'[c].status = status

TypeOK ==
    /\ authProvider \in AuthProviders
    /\ opts \in ClientOpts
    /\ curToken \in [Providers -> Tokens]
    /\ \A c \in Calls :
          /\ attempts[c] \in 0..MaxAttempts
          /\ unreleased[c] \in BOOLEAN
          /\ accessToken[c] \in Tokens \cup {NoToken}
          /\ headers[c] \in HeaderArgs
          /\ reqHeaders[c] \in [HeaderNames -> Seq(HeaderValues \cup {"application/json"})]

\* C1: refreshToken() is invoked at most once during one logical call,
\* whatever the responses are.
C1_AtMostOneRefresh == \A c \in Calls : refreshCalls[c] <= 1

\* a call that refreshed, was retried again afterwards and got a 401 at the end
C1_Witness ==
    \E c \in Calls :
        /\ refreshCalls[c] = 1
        /\ attempts[c] >= 3
        /\ pc[c] = "failed"
        /\ outcome[c].status = 401

\* C2: when every response is a 5xx, a call makes exactly retryTimesOn5xx + 1
\* attempts and then fails with a SpotifyError carrying that 5xx status.
C2_ExactlyNPlusOneAttempts ==
    \A c \in Calls :
        only5xx[c] /\ Begun(c) =>
            /\ attempts[c] <= opts.retryTimesOn5xx + 1
            /\ Ended(c) /\ outcome[c].kind # "TransportError" =>
                  /\ attempts[c] = opts.retryTimesOn5xx + 1
                  /\ pc[c] = "failed"
                  /\ outcome[c].kind = "SpotifyError"
                  /\ outcome[c].status = res[c].status
                  /\ StartsWith5(outcome[c].status)

\* a call with a retry budget that ended after 5xx responses only
C2_Witness ==
    \E c \in Calls :
        /\ only5xx[c]
        /\ opts.retryTimesOn5xx = MaxRetries
        /\ attempts[c] = MaxRetries + 1
        /\ pc[c] = "failed"
        /\ outcome[c].kind = "SpotifyError"

\* C3: a 401 received after the call's refresh is not retried: no further
\* attempt, no further refreshToken(), and the call ends with SpotifyError 401.
C3_NoRetryAfterRefresh ==
    [][\A c \in Calls :
          /\ pc[c] \in {"gotResponse", "awaitText"}
          /\ res[c].status = 401
          /\ isTriedRefreshToken[c]
          => Terminal(c, 401)]_vars

\* two 401 in a row with a provider: one refresh, SpotifyError 401
C3_Witness ==
    \E c \in Calls :
        /\ isTriedRefreshToken[c]
        /\ first401[c]
        /\ attempts[c] = 2
        /\ refreshCalls[c] = 1
        /\ pc[c] = "failed"
        /\ outcome[c] = [kind |-> "SpotifyError", status |-> 401, message |-> "null"]

\* C4: a first response of 401 followed by a successful one: one
\* refreshToken() call, made on the 401 and before the second attempt, the
\* second attempt carries the token it returned, and the result is that of
\* the second response.
C4_RefreshThenSuccess ==
    /\ [](\A c \in Calls :
            /\ first401[c]
            /\ attempts[c] = 2
            /\ Ok(res[c].status)
            => /\ refreshCalls[c] = 1
               /\ isTriedRefreshToken[c]
               /\ sentToken[c] = refreshResult[c]
               /\ Ended(c) => outcome[c].kind \in {"value", "void", "Error", "SyntaxError"}
               /\ pc[c] = "returned" => outcome[c].status = res[c].status)
    /\ [][\A c \in Calls :
            /\ refreshCalls'[c] # refreshCalls[c] =>
                  /\ pc[c] = "gotResponse" /\ res[c].status = 401
                  /\ pc'[c] = "awaitRefresh"
                  /\ attempts'[c] = attempts[c]
            /\ pc[c] = "awaitRefresh" /\ Sends(c) =>
                  /\ refreshResult'[c] \in Tokens
                  /\ sentToken'[c] = refreshResult'[c]]_vars

\* 401 then 200: the call returned after two attempts, with a new token
C4_Witness ==
    \E c \in Calls :
        /\ first401[c]
        /\ attempts[c] = 2
        /\ pc[c] = "returned"
        /\ outcome[c].kind = "value"
        /\ sentToken[c] # ResolveToken(startProvider[c], curToken)

\* C5 as stated: under fairness every logical call, once begun, ends, for
\* every configuration and every sequence of responses.
C5_AlwaysEnds == \A c \in Single : Begun(c) ~> Ended(c)

\* C5: under fairness every logical call, once begun, ends in success or in a
\* terminal failure when retryOnRateLimit is off.
C5_EndsWithoutRateLimitRetry ==
    \A c \in Single : (Begun(c) /\ ~opts.retryOnRateLimit) ~> Ended(c)

\* a call without rate-limit retry that used its refresh and a 5xx retry
C5_Witness ==
    \E c \in Calls :
        /\ ~opts.retryOnRateLimit
        /\ opts.retryDelayOn5xx = 0
        /\ attempts[c] = 3
        /\ isTriedRefreshToken[c]
        /\ retryTimesOn5xx[c] = 0
        /\ Ended(c)

C7_InFlightUsesStartProvider ==
    [][\A c \in Calls :
          /\ pc[c] = "gotResponse"
          /\ pc'[c] # pc[c]
          /\ res[c].status = 401
          /\ ~isTriedRefreshToken[c]
          => /\ (pc'[c] = "awaitRefresh") = IsObject(startProvider[c])
             /\ pc'[c] = "awaitRefresh" => refreshOn'[c] = startProvider[c]]_vars

\* C7: setAuthProvider changes nothing of a call in flight (its held token
\* stays), a call started afterwards resolves its token from the new Token
\* Source, and on a 401 the decision to refresh and the provider refreshed
\* are those of the Token Source installed when the 401 is handled.
C7_SwapSeenAt401 ==
    [][\A c \in Calls :
          /\ authProvider' # authProvider =>
                /\ accessToken'[c] = accessToken[c]
                /\ sentToken'[c] = sentToken[c]
                /\ pc'[c] = pc[c]
          /\ pc[c] = "idle" /\ pc'[c] # "idle" =>
                sentToken'[c] = ResolveToken(authProvider, curToken)
          /\ pc[c] = "gotResponse" /\ pc'[c] # pc[c] /\ res[c].status = 401
               /\ ~isTriedRefreshToken[c]
             => /\ (pc'[c] = "awaitRefresh") = IsObject(authProvider)
                /\ pc'[c] = "awaitRefresh" => refreshOn'[c] = authProvider]_vars

\* a call started with a plain string that refreshes a provider set meanwhile
C7_Witness ==
    \E c \in Calls :
        /\ pc[c] = "awaitRefresh"
        /\ ~IsObject(startProvider[c])
        /\ IsObject(refreshOn[c])

\* C8: when a logical call has ended, no response body obtained during the
\* call is left open.
C8_NoOpenBodyAtEnd ==
    \A c \in Calls :
        Ended(c) => ~unreleased[c] /\ res[c].stream # "open"

\* C9: a 429 is terminal when retryOnRateLimit is off or Retry-After is
\* absent or zero: no further attempt even with 5xx budget left, and the call
\* ends with SpotifyError 429.
C9_RateLimitTerminal ==
    [][\A c \in Calls :
          /\ pc[c] \in {"gotResponse", "awaitText"}
          /\ res[c].status = 429
          /\ ~opts.retryOnRateLimit \/ res[c].retryAfter \in {"absent", "0"}
          => Terminal(c, 429)]_vars

\* a 429 with Retry-After: 0 ended the call though retries were enabled
C9_Witness ==
    \E c \in Calls :
        /\ opts.retryOnRateLimit
        /\ res[c].retryAfter = "0"
        /\ retryTimesOn5xx[c] > 0
        /\ pc[c] = "failed"
        /\ outcome[c].kind = "SpotifyError"
        /\ outcome[c].status = 429

\* C10: while the Token Source is a plain string, refreshToken() is not
\* invoked and a 401 is not retried: the call ends with SpotifyError 401.
C10_StaticTokenNoRefresh ==
    [][\A c \in Calls :
          /\ ~IsObject(authProvider) => refreshCalls'[c] = refreshCalls[c]
          /\ /\ pc[c] \in {"gotResponse", "awaitText"}
             /\ res[c].status = 401
             /\ ~IsObject(authProvider)
             => Terminal(c, 401)]_vars

\* a call on a plain string token that failed on its first 401
C10_Witness ==
    \E c \in Calls :
        /\ ~IsObject(startProvider[c])
        /\ ~IsObject(authProvider)
        /\ refreshCalls[c] = 0
        /\ attempts[c] = 1
        /\ first401[c]
        /\ pc[c] = "failed"
        /\ outcome[c].kind = "SpotifyError"
        /\ outcome[c].status = 401

\* C11: a SpotifyError is raised only for a final response whose status is
\* 400 or more; every response below 400 goes to result handling.
C11_ErrorOnlyFrom400 ==
    \A c \in Calls :
        outcome[c].kind = "SpotifyError" => outcome[c].status >= 400

C15_RateLimitRetryFrame ==
    [][\A c \in Calls :
          /\ /\ pc[c] = "gotResponse"
             /\ res[c].status = 429
             /\ opts.retryOnRateLimit
             /\ Truthy(NumberOfHeader(res[c].retryAfter))
             => /\ pc'[c] \in {"gotResponse", "sleep429"}
                /\ attempts'[c] = attempts[c]
                /\ retryTimesOn5xx'[c] = retryTimesOn5xx[c]
                /\ isTriedRefreshToken'[c] = isTriedRefreshToken[c]
                /\ refreshCalls'[c] = refreshCalls[c]
          /\ pc[c] = "sleep429"
             => /\ pc'[c] \in {"sleep429", "awaitFetch"}
                /\ retryTimesOn5xx'[c] = retryTimesOn5xx[c]
                /\ isTriedRefreshToken'[c] = isTriedRefreshToken[c]
                /\ refreshCalls'[c] = refreshCalls[c]
                /\ accessToken'[c] = accessToken[c]]_vars

\* as many rate-limit retries as the counter can tell, the budget untouched
C15_Witness ==
    \E c \in Calls :
        /\ pc[c] = "awaitFetch"
        /\ attempts[c] = MaxAttempts
        /\ opts.retryTimesOn5xx = MaxRetries
        /\ retryTimesOn5xx[c] = MaxRetries
        /\ ~isTriedRefreshToken[c]

\* C18: with retryOnRateLimit off a call makes at most retryTimesOn5xx + 2
\* attempts, and at most retryTimesOn5xx + 1 when it never refreshes (as
\* with a static token).
C18_AttemptsBound ==
    \A c \in Calls :
        ~opts.retryOnRateLimit =>
            /\ attempts[c] <= opts.retryTimesOn5xx + 2
            /\ ~isTriedRefreshToken[c] => attempts[c] <= opts.retryTimesOn5xx + 1
            /\ ~IsObject(authProvider) /\ ~IsObject(startProvider[c]) /\ refreshCalls[c] = 0
                  => attempts[c] <= opts.retryTimesOn5xx + 1

\* the largest budget used up together with the refresh
C18_Witness ==
    \E c \in Calls :
        /\ ~opts.retryOnRateLimit
        /\ opts.retryTimesOn5xx = MaxRetries
        /\ attempts[c] = MaxRetries + 2
        /\ Ended(c)

\* C19: the remaining 5xx retry count starts at the configured count, only
\* goes down, by one and only with a retry sent after a 5xx response, is not
\* reset by a refresh or a rate-limit wait, and stays at or above zero.
C19_RetryBudget ==
    /\ [](\A c \in Calls :
            Begun(c) => /\ retryTimesOn5xx[c] >= 0
                        /\ retryTimesOn5xx[c] <= opts.retryTimesOn5xx)
    /\ [][\A c \in Calls :
            /\ pc[c] = "idle" /\ pc'[c] # "idle" =>
                  retryTimesOn5xx'[c] = opts.retryTimesOn5xx
            /\ Begun(c) /\ retryTimesOn5xx'[c] # retryTimesOn5xx[c] =>
                  /\ retryTimesOn5xx'[c] = retryTimesOn5xx[c] - 1
                  /\ StartsWith5(res[c].status)
                  /\ pc[c] \in {"gotResponse", "sleep5xx"}
                  /\ pc'[c] = "awaitFetch"]_vars

\* the budget is used up by 5xx responses on both sides of a refresh
C19_Witness ==
    \E c \in Calls :
        /\ opts.retryTimesOn5xx = MaxRetries
        /\ retryTimesOn5xx[c] = 0
        /\ isTriedRefreshToken[c]
        /\ pc[c] = "failed"
        /\ outcome[c].kind = "SpotifyError"
        /\ StartsWith5(outcome[c].status)

\* C20: a rejected transport send or a rejected refreshToken() ends the call
\* at once with that failure: no further attempt, the 5xx budget untouched.
C20_RejectionsNotRetried ==
    [][\A c \in Calls :
          /\ pc[c] = "awaitFetch" =>
                /\ pc'[c] \in {"awaitFetch", "gotResponse", "failed"}
                /\ pc'[c] # "gotResponse" =>
                      /\ attempts'[c] = attempts[c]
                      /\ retryTimesOn5xx'[c] = retryTimesOn5xx[c]
                /\ pc'[c] = "failed" => outcome'[c].kind = "TransportError"
          /\ pc[c] = "awaitRefresh" =>
                /\ pc'[c] \in {"awaitRefresh", "awaitFetch", "failed"}
                /\ retryTimesOn5xx'[c] = retryTimesOn5xx[c]
                /\ pc'[c] = "awaitFetch" => refreshResult'[c] \in Tokens
                /\ pc'[c] = "failed" =>
                      /\ outcome'[c].kind = "RefreshError"
                      /\ attempts'[c] = attempts[c]
          /\ Ended(c) =>
                /\ pc'[c] = pc[c]
                /\ outcome'[c] = outcome[c]
                /\ attempts'[c] = attempts[c]]_vars

\* the transport failed on a retry while 5xx budget was left
C20_Witness ==
    \E c \in Calls :
        /\ pc[c] = "failed"
        /\ outcome[c].kind = "TransportError"
        /\ isTriedRefreshToken[c]
        /\ attempts[c] = 2
        /\ retryTimesOn5xx[c] > 0

C17_ErrorMessage ==
    \A c \in Calls :
        outcome[c].kind = "SpotifyError" =>
            outcome[c].message =
                CASE res[c].body = "none"     -> "null"
                  [] res[c].body = "envelope" -> "error.message"
                  [] OTHER                    -> "text"

\* C16: in the headers sent with every attempt, a header the caller supplies
\* under the name of a base header replaces it, so the sent value is exactly
\* the caller's value; a base header the caller does not name keeps its value.
C16_CallerHeaderOverrides ==
    \A c \in Calls :
        Begun(c) =>
            \A n \in {"Content-Type", "Accept"} :
                reqHeaders[c][n] =
                    IF headers[c][n] # NoHeader
                      THEN <<headers[c][n]>>
                      ELSE <<"application/json">>

\* C13: refreshes of concurrent calls are not serialized. A call that handles
\* a 401 on a dynamic provider before it has refreshed invokes refreshToken()
\* itself, once, whatever the other calls are doing, a pending refresh of
\* another call included; and a step of another call changes neither the
\* call's token nor its refresh flag nor its count of refreshes.
C13_IndependentRefresh ==
    [][\A c \in Calls :
          /\ (/\ pc[c] = "gotResponse"
              /\ res[c].status = 401
              /\ IsObject(authProvider)
              /\ ~isTriedRefreshToken[c]
              /\ pc'[c] # pc[c])
                => /\ pc'[c] = "awaitRefresh"
                   /\ refreshOn'[c] = authProvider
                   /\ refreshCalls'[c] = refreshCalls[c] + 1
          /\ pc'[c] = pc[c]
                => /\ accessToken'[c] = accessToken[c]
                   /\ sentToken'[c] = sentToken[c]
                   /\ isTriedRefreshToken'[c] = isTriedRefreshToken[c]
                   /\ refreshCalls'[c] = refreshCalls[c]
                   /\ refreshOn'[c] = refreshOn[c]]_vars

\* two calls whose refreshToken() invocations on the same provider overlap
C13_Witness ==
    /\ \A c \in Calls :
          /\ pc[c] = "awaitRefresh"
          /\ refreshCalls[c] = 1
          /\ ~isTriedRefreshToken[c]
    /\ refreshOn["c1"] = refreshOn["c2"]

====
